---- MODULE Spec2Model ----
(***************************************************************************)
(* Model of the OsmoHLR CTRL client of add_subscriber.py: the class        *)
(* OsmoCtrlClient (connect, send_command, close, _leftovers), the TCP      *)
(* byte stream between the client and the CTRL peer, and the protocol      *)
(* helpers the class inherits from osmopy.osmo_ipa.Ctrl (cmd, skip_traps,  *)
(* split_combined, rem_header, parse, verify).                             *)
(*                                                                         *)
(* A byte is a natural number.  A frame is a 2-byte big-endian length      *)
(* prefix followed by the payload; every token of the payload text         *)
(* ("<id> <VERB> <variable>[ <value>]") is one byte of the model.          *)
(***************************************************************************)
EXTENDS Integers, Sequences, FiniteSets, TLC

(* ---------------------------------------------------------------------- *)
(* Bounds of the model                                                     *)
(* ---------------------------------------------------------------------- *)
MaxCommands == 2
MaxPeerFrames == 3

(* ---------------------------------------------------------------------- *)
(* Program constants                                                       *)
(* ---------------------------------------------------------------------- *)
RecvBufSize == 4096
LeftoverBufSize == 1024
HdrLen == 2

(* Token bytes of the payload text. *)
Tok == [GET |-> 10, SET |-> 11, TRAP |-> 12,
        GET_REPLY |-> 13, SET_REPLY |-> 14, ERROR |-> 15,
        VarX |-> 20, VarY |-> 21, VarAlarm |-> 22,
        VarCreate |-> 23, VarMsisdn |-> 24,
        Val5 |-> 30, Val6 |-> 31, ValRaised |-> 32,
        ValImsi |-> 33, ValMsisdn |-> 34]

Verbs == {Tok.GET, Tok.SET, Tok.TRAP, Tok.GET_REPLY, Tok.SET_REPLY, Tok.ERROR}

(* Python's None for a frame or a socket read that produced no frame. *)
None == <<>>

(* The commands a caller issues: a variable and a value (<<>> would be     *)
(* value=None, a GET; add_to_osmohlr always passes a value).               *)
CmdVars == {Tok.VarX}
CmdVals == {<<Tok.Val5>>}

Min(a, b) == IF a < b THEN a ELSE b

Drop(s, n) == SubSeq(s, n + 1, Len(s))

(* ---------------------------------------------------------------------- *)
(* Codec (inherited from osmopy.osmo_ipa.Ctrl)                             *)
(* ---------------------------------------------------------------------- *)

(* Length-prefix framing of a payload. *)
add_header(payload) == <<Len(payload) \div 256, Len(payload) % 256>> \o payload

(* The payload length announced by the prefix of buf (Len(buf) >= HdrLen). *)
FrameLen(buf) == buf[1] * 256 + buf[2]

(* A frame is complete once the prefix and `length` payload bytes are there. *)
IsComplete(buf) == Len(buf) >= HdrLen /\ Len(buf) = HdrLen + FrameLen(buf)

(* (first message, rest) by slicing at the announced length. *)
split_combined(buf) ==
    IF Len(buf) < HdrLen
    THEN <<buf, <<>>>>
    ELSE LET k == Min(HdrLen + FrameLen(buf), Len(buf))
         IN  <<SubSeq(buf, 1, k), Drop(buf, k)>>

(* Strip the length prefix. *)
rem_header(head) == Drop(head, HdrLen)

is_notification(payload) == Len(payload) >= 2 /\ payload[2] = Tok.TRAP

(* First complete non-TRAP message of data, None if there is none. *)
RECURSIVE skip_traps(_)
skip_traps(data) ==
    IF Len(data) = 0
    THEN None
    ELSE LET ht == split_combined(data)
         IN  IF ~IsComplete(ht[1])
             THEN None
             ELSE IF is_notification(rem_header(ht[1]))
                  THEN skip_traps(ht[2])
                  ELSE ht[1]

(* Decode a framed message; ok is FALSE for a malformed payload. *)
parse(raw) ==
    LET p == rem_header(raw)
    IN  IF Len(p) \in {3, 4} /\ p[2] \in Verbs
        THEN [ok |-> TRUE, id |-> p[1], verb |-> p[2], var |-> p[3],
              val |-> Drop(p, 3)]
        ELSE [ok |-> FALSE, id |-> 0, verb |-> 0, var |-> 0, val |-> <<>>]

(* Build a SET (value given) or GET command with operation id r. *)
cmd(r, var, val) ==
    add_header(<<r, IF val = <<>> THEN Tok.GET ELSE Tok.SET, var>> \o val)

(* (b, v): b is the verification result, v the value of the reply. *)
verify(reply, r, var, val) ==
    LET m == parse(reply)
        want == IF val = <<>> THEN Tok.GET_REPLY ELSE Tok.SET_REPLY
    IN  << m.ok /\ m.id = r /\ m.verb = want /\ m.var = var
               /\ (val = <<>> \/ m.val = val),
           m.val >>

(* All messages _leftovers prints for a non-empty read: it splits off one  *)
(* message after the other until the rest is empty.                        *)
RECURSIVE leftover_messages(_)
leftover_messages(tail) ==
    LET ht == split_combined(tail)
    IN  <<rem_header(ht[1])>>
           \o (IF Len(ht[2]) = 0 THEN <<>> ELSE leftover_messages(ht[2]))

(* ---------------------------------------------------------------------- *)
(* State                                                                   *)
(* ---------------------------------------------------------------------- *)
VARIABLES
    sock,        \* self.sock: "None", "unconnected", "open" or "closed"
    pc,          \* position of the caller's thread in the client
    id,          \* last operation id cmd has handed out
    cur,         \* the pending command: r, var, val and its frame c
    ret,         \* the local ret of send_command
    outcome,     \* how the last call ended
    result,      \* tuple returned by the last send_command
    log,         \* messages printed by _leftovers in the current call
    rxq,         \* bytes the peer has sent that the client has not read
    txq,         \* bytes handed to the transport by sock.send
    peerClosed,  \* the peer has closed its end
    netErr,      \* the transport has failed
    peerFrames,  \* number of frames the peer has sent
    drainData,   \* bytes read by the drain of the running call
    loopBytes,   \* bytes read by the receive loop of the running call
    steps,       \* steps of the current send_command call, in order
    eofRead,     \* the receive loop has read zero bytes in this call
    written,     \* bytes of the command frame accepted by sock.send
    calls,       \* number of send_command calls started
    closeCalls,  \* number of close() calls made
    closeRaised, \* a close() call raised
    hpc,         \* position of add_to_osmohlr ("free": no such caller)
    prints,      \* what add_to_osmohlr has printed about its commands
    mpc,         \* position of main ("free": main is not running)
    args,        \* the --skip-* flags main has parsed
    aucId,       \* auc_id of main
    called       \* the backend functions main has called, in order

vars == <<sock, pc, id, cur, ret, outcome, result, log, rxq, txq,
          peerClosed, netErr, peerFrames, drainData, loopBytes, steps,
          eofRead, written, calls, closeCalls, closeRaised,
          hpc, prints, mpc, args, aucId, called>>

netVars == <<rxq, txq, peerClosed, netErr, peerFrames>>
callVars == <<id, cur, ret, result, drainData, loopBytes, steps, eofRead,
              written, calls>>
closeVars == <<closeCalls, closeRaised>>
hlrVars == <<hpc, prints>>
mainVars == <<mpc, args, aucId, called>>
callerVars == <<hlrVars, mainVars>>
clientVars == <<sock, pc, outcome, log, netVars, callVars, closeVars>>

NoCmd == [r |-> 0, var |-> 0, val |-> <<>>, c |-> <<>>]

(* The client after OsmoCtrlClient() and an idle network. *)
ClientInit ==
    /\ sock = "None"
    /\ pc = "idle"
    /\ id = 0
    /\ cur = NoCmd
    /\ ret = None
    /\ outcome = "none"
    /\ result = <<>>
    /\ log = <<>>
    /\ rxq = <<>>
    /\ txq = <<>>
    /\ peerClosed = FALSE
    /\ netErr = FALSE
    /\ peerFrames = 0
    /\ drainData = <<>>
    /\ loopBytes = <<>>
    /\ steps = <<>>
    /\ eofRead = FALSE
    /\ written = 0
    /\ calls = 0
    /\ closeCalls = 0
    /\ closeRaised = FALSE

NoArgs == [skip_core_hss |-> FALSE, skip_pyhss |-> FALSE,
           skip_osmohlr |-> FALSE]

(* Neither add_to_osmohlr nor main is running. *)
NoCaller ==
    /\ hpc = "free"
    /\ prints = <<>>
    /\ mpc = "free"
    /\ args = NoArgs
    /\ aucId = <<>>
    /\ called = <<>>

(* A client whose methods are called in any order. *)
Init == ClientInit /\ NoCaller

(* ---------------------------------------------------------------------- *)
(* The socket                                                              *)
(* ---------------------------------------------------------------------- *)

(* End of stream: the peer has closed and every byte it sent was read. *)
AtEof == peerClosed /\ rxq = <<>>

(* sock.recv(bufsize) on the blocking socket returns once bytes are queued, *)
(* the stream has ended or the transport has failed.                       *)
RecvReady == netErr \/ rxq # <<>> \/ AtEof

(* The byte counts a blocking recv(bufsize) may return: the bytes of the   *)
(* stream that have arrived when it returns, at least one unless the       *)
(* stream has ended, at most bufsize.                                      *)
RecvCounts(bufsize) ==
    IF rxq = <<>> THEN {0} ELSE 1..Min(bufsize, Len(rxq))

(* The byte counts a recv(bufsize, MSG_DONTWAIT) may return: what has      *)
(* arrived, possibly nothing (then it raises or, at the end of the         *)
(* stream, returns no bytes).                                              *)
RecvCountsNoWait(bufsize) == 0..Min(bufsize, Len(rxq))

(* ---------------------------------------------------------------------- *)
(* OsmoCtrlClient                                                          *)
(* ---------------------------------------------------------------------- *)

(* connect: a new blocking socket is stored in self.sock, then connected. *)
Connect ==
    /\ hpc = "free"
    /\ pc = "idle"
    /\ sock = "None"
    /\ \/ /\ sock' = "open"
          /\ outcome' = "connected"
       \/ /\ sock' = "unconnected"
          /\ outcome' = "ConnectionError"
    /\ UNCHANGED <<pc, log, netVars, callVars, closeVars, callerVars>>

(* The caller enters send_command(var, value) on a connected client. *)
SendCommandCall ==
    /\ hpc = "free"
    /\ pc = "idle"
    /\ sock = "open"
    /\ calls < MaxCommands
    /\ \E var \in CmdVars, val \in CmdVals :
          cur' = [r |-> 0, var |-> var, val |-> val, c |-> <<>>]
    /\ pc' = "drain"
    /\ calls' = calls + 1
    /\ ret' = None
    /\ result' = <<>>
    /\ outcome' = "running"
    /\ UNCHANGED <<sock, id, log, drainData, loopBytes, steps, eofRead,
                   written, netVars, closeVars, callerVars>>

(* _leftovers(sock, MSG_DONTWAIT): one non-blocking read; a socket error   *)
(* (nothing queued, transport failed) returns False; every message split   *)
(* off the bytes read is printed.                                          *)
Leftovers ==
    /\ pc = "drain"
    /\ \E n \in IF netErr THEN {0} ELSE RecvCountsNoWait(LeftoverBufSize) :
          LET data == SubSeq(rxq, 1, n)
          IN  /\ rxq' = Drop(rxq, n)
              /\ drainData' = data
              /\ log' = IF Len(data) # 0
                        THEN log \o leftover_messages(data)
                        ELSE log
    /\ steps' = Append(steps, "drain")
    /\ pc' = "write"
    /\ UNCHANGED <<sock, id, cur, ret, outcome, result, txq,
                   peerClosed, netErr, peerFrames, loopBytes, eofRead, written,
                   calls, closeVars, callerVars>>

(* The byte counts sock.send(c) may accept: all of c or a proper prefix. *)
SendAccepts(c) == {1, Len(c)}

(* Returning to the caller right after the send, without the loop. *)
AfterSend_NoWait == "idle"

(* After self.sock.send(c) the call enters the receive loop. *)
AfterSend == "recv"

(* (r, c) = self.cmd(var, value); self.sock.send(c): send hands some       *)
(* non-empty prefix of c to the transport and returns its length, which    *)
(* the caller does not look at; a failed transport raises.                 *)
SendCommandWrite ==
    /\ pc = "write"
    /\ LET r == id + 1
           c == cmd(r, cur.var, cur.val)
       IN  /\ id' = r
           /\ cur' = [cur EXCEPT !.r = r, !.c = c]
           /\ \/ /\ netErr
                 /\ pc' = "idle"
                 /\ outcome' = "IoError"
                 /\ drainData' = <<>>
                 /\ steps' = <<>>
                 /\ log' = <<>>
                 /\ UNCHANGED <<txq, written>>
              \/ /\ ~netErr
                 /\ \E n \in SendAccepts(c) :
                       /\ txq' = txq \o SubSeq(c, 1, n)
                       /\ written' = n
                 /\ pc' = AfterSend
                 /\ steps' = Append(steps, "write")
                 /\ UNCHANGED <<outcome, drainData, log>>
    /\ UNCHANGED <<sock, ret, result, rxq, peerClosed, netErr,
                   peerFrames, loopBytes, eofRead, calls, closeVars, callerVars>>

(* The loop taking the first message of a read without looking for TRAPs. *)
LoopFilter_NoSkip(data) ==
    IF Len(data) = 0 \/ ~IsComplete(split_combined(data)[1])
    THEN None
    ELSE split_combined(data)[1]

(* ret = self.skip_traps(ret) *)
LoopFilter(data) == skip_traps(data)

(* One turn of the receive loop: ret = self.sock.recv(4096), filter, and   *)
(* leave the loop with the parsed message when ret is not None.  A failed  *)
(* transport or a message that does not parse raises.                      *)
SendCommandRecv ==
    /\ pc = "recv"
    /\ RecvReady
    /\ \/ /\ netErr
          /\ pc' = "idle"
          /\ outcome' = "IoError"
          /\ loopBytes' = <<>>
          /\ drainData' = <<>>
          /\ steps' = <<>>
          /\ log' = <<>>
          /\ eofRead' = FALSE
          /\ written' = 0
          /\ UNCHANGED <<ret, rxq>>
       \/ /\ ~netErr
          /\ \E n \in RecvCounts(RecvBufSize) :
                LET data == SubSeq(rxq, 1, n)
                    r == LoopFilter(data)
                IN  /\ rxq' = Drop(rxq, n)
                    /\ IF r = None \/ parse(r).ok
                       THEN /\ pc' = IF r = None THEN "recv" ELSE "verify"
                            /\ ret' = r
                            /\ loopBytes' = loopBytes \o data
                            /\ eofRead' = (eofRead \/ n = 0)
                            /\ steps' = IF steps[Len(steps)] = "recv"
                                        THEN steps
                                        ELSE Append(steps, "recv")
                            /\ UNCHANGED <<outcome, drainData, log, written>>
                       ELSE /\ pc' = "idle"
                            /\ outcome' = "ProtocolError"
                            /\ ret' = None
                            /\ loopBytes' = <<>>
                            /\ drainData' = <<>>
                            /\ steps' = <<>>
                            /\ log' = <<>>
                            /\ eofRead' = FALSE
                            /\ written' = 0
    /\ UNCHANGED <<sock, id, cur, result, txq, peerClosed,
                   netErr, peerFrames, calls, closeVars, callerVars>>

(* The return verifying the reply against its own id instead of r. *)
ReturnValue_AnyId(reply, r, var, val) ==
    <<rem_header(reply)>> \o verify(reply, parse(reply).id, var, val)

(* return (self.rem_header(ret),) + self.verify(ret, r, var, value) *)
ReturnValue(reply, r, var, val) ==
    <<rem_header(reply)>> \o verify(reply, r, var, val)

(* Sending the command again when the verification result is negative. *)
AfterVerify_Retry(res) == IF res[2] THEN "idle" ELSE "write"

(* The return statement ends the call whatever verify has found. *)
AfterVerify(res) == "idle"

SendCommandReturn ==
    /\ pc = "verify"
    /\ result' = ReturnValue(ret, cur.r, cur.var, cur.val)
    /\ outcome' = "returned"
    /\ pc' = AfterVerify(ReturnValue(ret, cur.r, cur.var, cur.val))
    /\ ret' = None
    /\ loopBytes' = <<>>
    /\ drainData' = <<>>
    /\ steps' = <<>>
    /\ log' = <<>>
    /\ eofRead' = FALSE
    /\ written' = 0
    /\ UNCHANGED <<sock, id, cur, netVars, calls, closeVars, callerVars>>

(* close without the test of self.sock: None has no close(). *)
close_NoGuard(s) ==
    IF s # "None"
    THEN [sock |-> "closed", raised |-> FALSE]
    ELSE [sock |-> s, raised |-> TRUE]

(* close: if self.sock: self.sock.close().  Closing a socket object again  *)
(* is a no-op of the socket.                                               *)
close(s) ==
    IF s # "None"
    THEN [sock |-> "closed", raised |-> FALSE]
    ELSE [sock |-> s, raised |-> FALSE]

MaxCloseCalls == 2

Close ==
    /\ hpc = "free"
    /\ pc = "idle"
    /\ closeCalls < MaxCloseCalls
    /\ sock' = close(sock).sock
    /\ closeRaised' = (closeRaised \/ close(sock).raised)
    /\ closeCalls' = closeCalls + 1
    /\ UNCHANGED <<pc, outcome, log, netVars, callVars, callerVars>>

(* ---------------------------------------------------------------------- *)
(* The peer and the transport                                              *)
(* ---------------------------------------------------------------------- *)
(* The connection is up and the client still has the socket in use. *)
Connected ==
    /\ sock = "open"
    /\ ~netErr
    /\ IF hpc = "free"
       THEN pc # "idle" \/ calls < MaxCommands
       ELSE hpc # "done"

(* The complete, well-formed frames at the front of a byte stream. *)
RECURSIVE FramesOf(_)
FramesOf(buf) ==
    IF Len(buf) = 0
    THEN <<>>
    ELSE LET ht == split_combined(buf)
         IN  IF IsComplete(ht[1]) /\ parse(ht[1]).ok
             THEN <<parse(ht[1])>> \o FramesOf(ht[2])
             ELSE <<>>

ReplyKinds == {"ok", "badval", "error"}

(* The reply payload of each kind to the command m. *)
ReplyTo(m, kind) ==
    LET rv == IF m.verb = Tok.SET THEN Tok.SET_REPLY ELSE Tok.GET_REPLY
        v == IF m.val = <<>> THEN <<Tok.Val5>> ELSE m.val
    IN  CASE kind = "ok"      -> <<m.id, rv, m.var>> \o v
          [] kind = "badval"  -> <<m.id, rv, m.var, Tok.Val6>>
          [] kind = "error"   -> <<m.id, Tok.ERROR, m.var>>

TrapPayload == <<0, Tok.TRAP, Tok.VarAlarm, Tok.ValRaised>>

PeerSend(payload) ==
    /\ Connected
    /\ ~peerClosed
    /\ peerFrames < MaxPeerFrames
    /\ rxq' = rxq \o add_header(payload)
    /\ peerFrames' = peerFrames + 1
    /\ UNCHANGED <<sock, pc, outcome, log, txq, peerClosed, netErr,
                   callVars, closeVars, callerVars>>

(* The peer pushes an unsolicited notification. *)
PeerTrap == PeerSend(TrapPayload)

(* The peer answers the last command it has received completely. *)
PeerReply ==
    /\ FramesOf(txq) # <<>>
    /\ \E kind \in ReplyKinds :
          PeerSend(ReplyTo(FramesOf(txq)[Len(FramesOf(txq))], kind))

PeerClose ==
    /\ Connected
    /\ ~peerClosed
    /\ peerClosed' = TRUE
    /\ UNCHANGED <<sock, pc, outcome, log, rxq, txq, netErr,
                   peerFrames, callVars, closeVars, callerVars>>

TransportFail ==
    /\ Connected
    /\ netErr' = TRUE
    /\ UNCHANGED <<sock, pc, outcome, log, rxq, txq, peerClosed,
                   peerFrames, callVars, closeVars, callerVars>>

(* ---------------------------------------------------------------------- *)
(* add_to_osmohlr                                                          *)
(* ---------------------------------------------------------------------- *)

(* "ERROR" in response[0].decode("utf-8") *)
ContainsError(payload) == \E i \in 1..Len(payload) : payload[i] = Tok.ERROR

(* send_command raised: control is in the except clause. *)
Raised == outcome \in {"IoError", "ProtocolError"}

(* The thread enters client.send_command(var, val). *)
EnterSendCommand(var, val) ==
    /\ pc' = "drain"
    /\ calls' = calls + 1
    /\ cur' = [r |-> 0, var |-> var, val |-> val, c |-> <<>>]
    /\ ret' = None
    /\ result' = <<>>
    /\ outcome' = "running"
    /\ UNCHANGED <<id, log, drainData, loopBytes, steps, eofRead, written>>

(* A line add_to_osmohlr prints about a command, with the verification     *)
(* result of the response it was printed for.                              *)
Printed(msg, verified) == [msg |-> msg, verified |-> verified]

(* The print after the response of a command: failure when the payload     *)
(* contains ERROR, success otherwise.                                      *)
CheckResponse(response, okMsg, failMsg) ==
    Printed(IF ContainsError(response[1]) THEN failMsg ELSE okMsg,
            response[2])

(* client = OsmoCtrlClient(); client.connect(...), and on success the      *)
(* call of send_command("subscriber.create", imsi).  A failed connect      *)
(* raises into the except clause.                                          *)
HlrConnect ==
    /\ hpc = "start"
    /\ pc = "idle"
    /\ sock = "None"
    /\ \/ /\ sock' = "open"
          /\ EnterSendCommand(Tok.VarCreate, <<Tok.ValImsi>>)
          /\ hpc' = "create"
          /\ UNCHANGED prints
       \/ /\ sock' = "unconnected"
          /\ outcome' = "ConnectionError"
          /\ prints' = Append(prints, Printed("Error", FALSE))
          /\ hpc' = "done"
          /\ UNCHANGED <<pc, log, callVars>>
    /\ UNCHANGED <<netVars, closeVars, mainVars>>

(* The first send_command has ended: on a return the response is checked   *)
(* and send_command("subscriber.by-imsi-<imsi>.msisdn", msisdn) is called, *)
(* whatever the check printed; an exception ends the function in the       *)
(* except clause.                                                          *)
HlrCreateDone ==
    /\ hpc = "create"
    /\ pc = "idle"
    /\ IF Raised
       THEN /\ prints' = Append(prints, Printed("Error", FALSE))
            /\ hpc' = "done"
            /\ UNCHANGED <<pc, outcome, log, callVars>>
       ELSE /\ prints' = Append(prints,
                     CheckResponse(result, "CreateOk", "CreateFailed"))
            /\ EnterSendCommand(Tok.VarMsisdn, <<Tok.ValMsisdn>>)
            /\ hpc' = "msisdn"
    /\ UNCHANGED <<sock, netVars, closeVars, mainVars>>

(* The second send_command has ended: on a return the response is checked  *)
(* and client.close() is called; an exception ends the function in the     *)
(* except clause, which does not close.                                    *)
HlrMsisdnDone ==
    /\ hpc = "msisdn"
    /\ pc = "idle"
    /\ IF Raised
       THEN /\ prints' = Append(prints, Printed("Error", FALSE))
            /\ UNCHANGED <<sock, closeVars>>
       ELSE /\ prints' = Append(prints,
                     CheckResponse(result, "MsisdnOk", "MsisdnFailed"))
            /\ sock' = close(sock).sock
            /\ closeRaised' = (closeRaised \/ close(sock).raised)
            /\ closeCalls' = closeCalls + 1
    /\ hpc' = "done"
    /\ UNCHANGED <<pc, outcome, log, netVars, callVars, mainVars>>

(* ---------------------------------------------------------------------- *)
(* main                                                                    *)
(* ---------------------------------------------------------------------- *)

(* What add_auc_to_pyhss may return: None (<<>>) or the auc_id of the      *)
(* response.                                                               *)
AucResults == {<<>>, <<0>>, <<1>>, <<2>>}

(* Python's truth value of auc_id. *)
Truthy(a) == a # <<>> /\ a[1] # 0

(* main going on after add_auc_to_pyhss has returned None. *)
AucFailed_Never(a) == FALSE

(* if auc_id is None: print("Aborting ..."); return *)
AucFailed(a) == a = <<>>

(* if not args.skip_core_hss *)
CallsOpen5gs(a) == ~a.skip_core_hss

(* if not args.skip_pyhss and auc_id *)
CallsPyhssSubscriber(a, auc) == ~a.skip_pyhss /\ Truthy(auc)

(* if not args.skip_osmohlr *)
CallsOsmohlr(a) == ~a.skip_osmohlr

(* How a backend function ends that catches its own failures: it prints   *)
(* success or the failure and returns.                                     *)
BackendOutcomes == {"ok", "failed"}

(* A call main has made and how it ended. *)
Call(fn, out) == [fn |-> fn, out |-> out]

(* The functions main has called, in order. *)
CalledFns == [i \in 1..Len(called) |-> called[i].fn]

WasCalled(fn) == \E i \in 1..Len(called) : called[i].fn = fn

(* auc_id = None; if not args.skip_pyhss: auc_id = add_auc_to_pyhss(...),  *)
(* and the return of main when that is None.                               *)
MainAuc ==
    /\ mpc = "auc"
    /\ IF args.skip_pyhss
       THEN /\ mpc' = "open5gs"
            /\ UNCHANGED <<aucId, called>>
       ELSE \E r \in AucResults :
               /\ called' = Append(called,
                     Call("add_auc_to_pyhss",
                          IF r = <<>> THEN "failed" ELSE "ok"))
               /\ aucId' = r
               /\ mpc' = IF AucFailed(r) THEN "aborted" ELSE "open5gs"
    /\ UNCHANGED <<args, hlrVars, clientVars>>

(* add_to_open5gs unless skipped; it catches CalledProcessError only, so a *)
(* docker that cannot be started ends main with the exception.             *)
MainOpen5gs ==
    /\ mpc = "open5gs"
    /\ IF CallsOpen5gs(args)
       THEN \/ \E out \in BackendOutcomes :
                  /\ called' = Append(called, Call("add_to_open5gs", out))
                  /\ mpc' = "pyhss"
            \/ /\ called' = Append(called, Call("add_to_open5gs", "raised"))
               /\ mpc' = "crashed"
       ELSE /\ mpc' = "pyhss"
            /\ UNCHANGED called
    /\ UNCHANGED <<args, aucId, hlrVars, clientVars>>

(* add_subscriber_to_pyhss(..., auc_id) under the test of line 246. *)
MainPyhssSubscriber ==
    /\ mpc = "pyhss"
    /\ IF CallsPyhssSubscriber(args, aucId)
       THEN \E out \in BackendOutcomes :
               /\ called' = Append(called,
                                   Call("add_subscriber_to_pyhss", out))
               /\ mpc' = "pyhss_ims"
       ELSE /\ mpc' = "osmohlr"
            /\ UNCHANGED called
    /\ UNCHANGED <<args, aucId, hlrVars, clientVars>>

(* add_ims_subscriber_to_pyhss, the second call under the same test. *)
MainPyhssIms ==
    /\ mpc = "pyhss_ims"
    /\ \E out \in BackendOutcomes :
          called' = Append(called, Call("add_ims_subscriber_to_pyhss", out))
    /\ mpc' = "osmohlr"
    /\ UNCHANGED <<args, aucId, hlrVars, clientVars>>

(* add_to_osmohlr unless skipped; it catches every exception. *)
MainOsmohlr ==
    /\ mpc = "osmohlr"
    /\ IF CallsOsmohlr(args)
       THEN \E out \in BackendOutcomes :
               called' = Append(called, Call("add_to_osmohlr", out))
       ELSE UNCHANGED called
    /\ mpc' = "done"
    /\ UNCHANGED <<args, aucId, hlrVars, clientVars>>

(* ---------------------------------------------------------------------- *)
(* Specifications                                                          *)
(* ---------------------------------------------------------------------- *)
ClientStep ==
    \/ Leftovers
    \/ SendCommandWrite
    \/ SendCommandRecv
    \/ SendCommandReturn

Next ==
    \/ Connect
    \/ SendCommandCall
    \/ Leftovers
    \/ SendCommandWrite
    \/ SendCommandRecv
    \/ SendCommandReturn
    \/ Close
    \/ PeerTrap
    \/ PeerReply
    \/ PeerClose
    \/ TransportFail

Spec == Init /\ [][Next]_vars

(* The thread inside send_command keeps running whenever it can. *)
FairSpec == Spec /\ WF_vars(ClientStep)

(* One run of add_to_osmohlr against the peer. *)
HlrInit ==
    /\ ClientInit
    /\ hpc = "start"
    /\ prints = <<>>
    /\ mpc = "free"
    /\ args = NoArgs
    /\ aucId = <<>>
    /\ called = <<>>

HlrNext ==
    \/ HlrConnect
    \/ HlrCreateDone
    \/ HlrMsisdnDone
    \/ Leftovers
    \/ SendCommandWrite
    \/ SendCommandRecv
    \/ SendCommandReturn
    \/ PeerTrap
    \/ PeerReply
    \/ PeerClose
    \/ TransportFail

HlrSpec == HlrInit /\ [][HlrNext]_vars

(* One run of main for every combination of the --skip-* flags. *)
MainInit ==
    /\ ClientInit
    /\ hpc = "free"
    /\ prints = <<>>
    /\ mpc = "auc"
    /\ args \in [skip_core_hss : BOOLEAN, skip_pyhss : BOOLEAN,
                  skip_osmohlr : BOOLEAN]
    /\ aucId = <<>>
    /\ called = <<>>

MainNext ==
    \/ MainAuc
    \/ MainOpen5gs
    \/ MainPyhssSubscriber
    \/ MainPyhssIms
    \/ MainOsmohlr

MainSpec == MainInit /\ [][MainNext]_vars

(* ---------------------------------------------------------------------- *)
(* Helpers of the properties                                               *)
(* ---------------------------------------------------------------------- *)
InCall == pc \in {"write", "recv", "verify"}

TrapFrame == add_header(TrapPayload)

(* The trailing bytes of a frame-aligned buffer that are an incomplete     *)
(* frame, <<>> when the buffer ends at a frame boundary.                   *)
RECURSIVE TailOf(_)
TailOf(buf) ==
    IF Len(buf) = 0
    THEN <<>>
    ELSE LET ht == split_combined(buf)
         IN  IF IsComplete(ht[1]) THEN TailOf(ht[2]) ELSE buf

(* The number of complete frames at the front of a frame-aligned buffer. *)
RECURSIVE NumComplete(_)
NumComplete(buf) ==
    IF Len(buf) = 0
    THEN 0
    ELSE LET ht == split_combined(buf)
         IN  IF IsComplete(ht[1]) THEN 1 + NumComplete(ht[2]) ELSE 0

(* The positions of buf at which the bytes of frame f start. *)
Occurrences(f, buf) ==
    {i \in 1..Len(buf) : i + Len(f) - 1 <= Len(buf)
                           /\ SubSeq(buf, i, i + Len(f) - 1) = f}

(* ---------------------------------------------------------------------- *)
(* Properties                                                              *)
(* ---------------------------------------------------------------------- *)

(* C1: send_command never returns a notification: the receive loop is left *)
(* only with a message that is not a TRAP, and the payload returned to the *)
(* caller is not a TRAP, whatever TRAPs were read before it.               *)
C1_NeverReturnsNotification ==
    /\ (pc = "verify" => ret # None /\ ~is_notification(rem_header(ret)))
    /\ (pc = "recv" => ret = None)
    /\ (outcome = "returned" => ~is_notification(result[1]))

(* A TRAP was read by the receive loop ahead of the reply it left with. *)
C1_Witness ==
    /\ pc = "verify"
    /\ Len(loopBytes) > Len(ret)
    /\ SubSeq(loopBytes, 1, Len(TrapFrame)) = TrapFrame

(* C2: a call that returns with a positive verification result returns a   *)
(* reply carrying the operation id this call generated and sent.           *)
C2_ReplyCarriesOwnId ==
    (outcome = "returned" /\ result[2])
        => /\ result[1][1] = cur.r
           /\ cur.r = calls
           /\ cur.c[HdrLen + 1] = cur.r

(* The second command of the session returned its own verified reply. *)
C2_Witness ==
    /\ outcome = "returned"
    /\ calls = 2
    /\ result[2]
    /\ result[1] = <<2, Tok.SET_REPLY, Tok.VarX, Tok.Val5>>

(* C3: send_command never returns normally with a reply that differs from  *)
(* the command sent in id, verb family, variable or value.                 *)
C3_MismatchNeverReturned ==
    outcome = "returned" => result[2]

(* C4: once a read of the receive loop has returned zero bytes the call    *)
(* has left the loop.                                                      *)
C4_EofLeavesLoop ==
    ~(pc = "recv" /\ eofRead)

(* C5: a call waiting in the receive loop on a live connection eventually  *)
(* leaves the loop (by a reply or a timeout).                              *)
C5_ReceiveIsBounded ==
    [](pc = "recv" /\ ~peerClosed /\ ~netErr
          => <>(pc # "recv" \/ peerClosed \/ netErr))

(* C6: the receive loop ends as soon as the bytes it has read, taken       *)
(* together, hold a complete reply: the result of reads that split a frame *)
(* is the result of one read of the same bytes.                            *)
C6_SplitReadsSameResult ==
    /\ (pc = "recv" => skip_traps(loopBytes) = None)
    /\ (pc = "verify" => ret = skip_traps(loopBytes))

(* C7: when the drain read ends with an incomplete frame, only the         *)
(* complete frames are logged and the receive loop reassembles the frame   *)
(* from the trailing bytes and the bytes read next.                        *)
C7_DrainKeepsPartialTail ==
    (InCall /\ TailOf(drainData) # <<>>)
        => /\ Len(log) = NumComplete(drainData)
           /\ (pc = "recv"
                  => skip_traps(TailOf(drainData) \o loopBytes) = None)

(* C8: the steps of a call are drain, write, receive, verify in this       *)
(* order; no byte is written before the drain has returned; every TRAP     *)
(* frame queued when the drain reads is logged by the drain and is not the *)
(* reply the call leaves the loop with.                                    *)
C8_DrainThenWrite ==
    /\ \A i \in 1..Len(steps) :
          steps[i] = <<"drain", "write", "recv", "verify">>[i]
    /\ (written > 0 => Len(steps) >= 2)
    /\ (InCall =>
          Cardinality(Occurrences(TrapFrame, drainData))
             <= Cardinality({i \in 1..Len(log) : log[i] = TrapPayload}))
    /\ (pc = "verify" => rem_header(ret) # TrapPayload)

(* C9: the receive loop is entered only after the whole command frame was  *)
(* handed to the transport.                                                *)
C9_WholeFrameWritten ==
    pc = "recv" => written = Len(cur.c)

(* C10: close never raises; it releases a socket the client holds, leaves  *)
(* a client without socket alone, and a further close changes nothing.     *)
C10_CloseIdempotent ==
    /\ []~closeRaised
    /\ [][closeCalls' > closeCalls
            => /\ sock' = (IF sock = "None" THEN "None" ELSE "closed")
               /\ (closeCalls >= 1 /\ sock = "closed" => sock' = sock)
               /\ UNCHANGED <<pc, outcome, log, netVars, callVars>>]_vars

(* close was called a second time on a client whose command had failed. *)
C10_Witness ==
    /\ closeCalls = 2
    /\ sock = "closed"
    /\ outcome = "IoError"

(* C11: when add_to_osmohlr has ended, a session it opened with a          *)
(* successful connect has been closed, by exactly one close().             *)
C11_SessionClosedOnce ==
    (hpc = "done" /\ sock # "unconnected")
        => (sock = "closed" /\ closeCalls = 1)

(* C12: a send_command call starts only when no other call is running, and *)
(* bytes are written to the socket only by the one running call, for the   *)
(* command that call has built.                                            *)
C12_OneCommandInFlight ==
    /\ [][calls' > calls
            => /\ pc = "idle"
               /\ outcome \in {"connected", "returned", "IoError",
                               "ProtocolError"}]_vars
    /\ [][txq' # txq
            => /\ pc = "write"
               /\ outcome = "running"
               /\ id' = calls]_vars

(* The second command is on the wire after the first call has returned. *)
C12_Witness ==
    /\ calls = 2
    /\ pc = "recv"
    /\ written = Len(cur.c)
    /\ Len(txq) > Len(cur.c)

(* C13: a call builds and writes its command at most once, and a call that *)
(* has returned or failed is back at its caller.                           *)
C13_NoRetry ==
    /\ id <= calls
    /\ Cardinality({i \in 1..Len(steps) : steps[i] = "write"}) <= 1
    /\ (outcome \in {"returned", "IoError", "ProtocolError"} => pc = "idle")

(* A call returned a reply that failed verification and sent nothing more. *)
C13_Witness ==
    /\ outcome = "returned"
    /\ ~result[2]
    /\ calls = 1
    /\ id = 1
    /\ Len(txq) <= Len(cur.c)

(* C14: the receive loop is left only with a message whose id is the id    *)
(* sent.                                                                   *)
C14_LoopEndsOnOwnId ==
    pc = "verify" => parse(ret).id = cur.r

(* C15: while the call waits for its reply, every TRAP frame it has read,  *)
(* in the drain or in the loop, has been logged once.                      *)
C15_EveryTrapLogged ==
    pc = "recv"
        => Cardinality(Occurrences(TrapFrame, drainData \o loopBytes))
              = Cardinality({i \in 1..Len(log) : log[i] = TrapPayload})

(* C16: no byte of the MSISDN command is written after the response to     *)
(* subscriber.create contained ERROR.                                      *)
C16_MsisdnOnlyAfterCreate ==
    ~(/\ hpc = "msisdn"
      /\ written > 0
      /\ \E i \in 1..Len(prints) : prints[i].msg = "CreateFailed")

(* C17: when main reaches the OsmoHLR step with PyHSS not skipped and an   *)
(* auc_id other than None, both PyHSS subscriber functions were called.    *)
C17_PyhssSubscriberAdded ==
    (mpc \in {"osmohlr", "done"} /\ ~args.skip_pyhss /\ aucId # <<>>)
        => /\ WasCalled("add_subscriber_to_pyhss")
           /\ WasCalled("add_ims_subscriber_to_pyhss")

(* C18: after a failed add_auc_to_pyhss main has aborted and has called    *)
(* nothing else, and a backend whose --skip flag is given is never called. *)
C18_AbortAndSkips ==
    /\ (mpc = "aborted" => CalledFns = <<"add_auc_to_pyhss">>)
    /\ (~args.skip_pyhss /\ aucId = <<>> /\ mpc # "auc" => mpc = "aborted")
    /\ (args.skip_core_hss => ~WasCalled("add_to_open5gs"))
    /\ (args.skip_pyhss
          => /\ ~WasCalled("add_auc_to_pyhss")
             /\ ~WasCalled("add_subscriber_to_pyhss")
             /\ ~WasCalled("add_ims_subscriber_to_pyhss"))
    /\ (args.skip_osmohlr => ~WasCalled("add_to_osmohlr"))

(* main has aborted on a failed AUC with no backend skipped. *)
C18_Witness ==
    /\ mpc = "aborted"
    /\ args = NoArgs
    /\ aucId = <<>>
    /\ Len(called) = 1

(* C19: every success line add_to_osmohlr prints is for a response whose   *)
(* verification result is positive.                                        *)
C19_SuccessOnlyIfVerified ==
    \A i \in 1..Len(prints) :
        prints[i].msg \in {"CreateOk", "MsisdnOk"} => prints[i].verified

====
